---- MODULE Spec2Model ----
(***************************************************************************)
(* Model of the interface-automation engine of src/src/App.jsx:            *)
(*   - buildDomSnapshot / parseElement  (the Snapshot Builder),            *)
(*   - findActualElementById            (Element Resolution),              *)
(*   - animateCursorTo                  (the Cursor Motion Planner),       *)
(*   - handlePerformInteraction         (the Interaction Executor).        *)
(*                                                                         *)
(* The live interface is a fixed universe of nodes whose attributes        *)
(* (display, attachment, box size, the data-screen-id stamp) change.       *)
(* Asynchronous code is cut at its awaits: one action is one task of the   *)
(* host's event loop, or one microtask continuation that runs before any   *)
(* other task.                                                             *)
(***************************************************************************)
EXTENDS Integers, Sequences, FiniteSets, TLC

VARIABLES
    hidden,        \* nodes whose computed style is display:none / visibility:hidden
    removed,       \* nodes detached from the document
    zeroSize,      \* nodes whose bounding box is 0 x 0
    stamp,         \* node -> value of its data-screen-id attribute (0: no attribute)
    domItems,      \* React state domItems: the current snapshot
    scrollY,       \* vertical scroll offset of the page
    isAutomating,  \* React state isAutomating
    cursorMode,    \* React state cursorMode
    cursorPos,     \* cursorPosRef.current / cursorPos: the synthetic pointer
    realMousePos,  \* realMousePosRef.current
    calls,         \* the invocations of handlePerformInteraction, one slot each
    probe          \* an element handed to inferPossibleInteractions, and the result

domVars == <<hidden, removed, zeroSize, stamp>>
uiVars == <<isAutomating, cursorMode, cursorPos, realMousePos, calls>>
vars == <<hidden, removed, zeroSize, stamp, domItems, scrollY, isAutomating,
          cursorMode, cursorPos, realMousePos, calls, probe>>

----------------------------------------------------------------------------
(* The interface: the page rendered by App (src/src/App.jsx 665-1110),     *)
(* reduced to one node of each shape the engine distinguishes.  Nodes are  *)
(* numbered in document order (pre-order).                                 *)

Null == 0

BODY == 1
NAV == 2
SEARCH == 3
BUY == 4
LABEL == 5
COUNTRY == 6
OPTION == 7
OPTION_US == 8
OPTION_US2 == 9
PARA == 10
CURSOR == 11
PANEL == 12
PERFORM == 13

NumNodes == 13

Nodes == 1..NumNodes

Children(n) ==
    CASE n = BODY    -> <<NAV, LABEL, PARA, CURSOR, PANEL>>
      [] n = NAV     -> <<SEARCH, BUY>>
      [] n = LABEL   -> <<COUNTRY>>
      [] n = COUNTRY -> <<OPTION, OPTION_US, OPTION_US2>>
      [] n = PANEL   -> <<PERFORM>>
      [] OTHER       -> <<>>

Parent(n) ==
    CASE n \in {NAV, LABEL, PARA, CURSOR, PANEL} -> BODY
      [] n \in {SEARCH, BUY} -> NAV
      [] n = COUNTRY -> LABEL
      [] n \in {OPTION, OPTION_US, OPTION_US2} -> COUNTRY
      [] n = PERFORM -> PANEL
      [] OTHER       -> Null

TagName(n) ==
    CASE n = BODY    -> "BODY"
      [] n = NAV     -> "DIV"
      [] n = SEARCH  -> "INPUT"
      [] n = BUY     -> "BUTTON"
      [] n = LABEL   -> "LABEL"
      [] n = COUNTRY -> "SELECT"
      [] n \in {OPTION, OPTION_US, OPTION_US2} -> "OPTION"
      [] n = PARA    -> "P"
      [] n = CURSOR  -> "IMG"
      [] n = PANEL   -> "DIV"
      [] n = PERFORM -> "BUTTON"

\* The text nodes directly under a node, as a sequence of characters.
OwnText(n) ==
    CASE n = BUY     -> <<"B">>
      [] n = LABEL   -> <<"C", " ">>
      [] n = OPTION  -> <<"u">>
      [] n = OPTION_US -> <<"U">>
      [] n = PARA    -> <<" ">>
      [] n = PERFORM -> <<"P">>
      [] OTHER       -> <<>>

\* className contains "fake-cursor" (App.jsx 831-839).
IsFakeCursor(n) == n = CURSOR

\* el.closest(".interaction-panel"): the node or one of its ancestors is the panel.
RECURSIVE InPanel(_)
InPanel(n) ==
    IF n = Null THEN FALSE
    ELSE IF n = PANEL THEN TRUE
    ELSE \E p \in {Parent(n)} : InPanel(p)

\* The node is in the document: neither it nor an ancestor is detached, and the
\* fake cursor is rendered only while automating (App.jsx 830).
RECURSIVE Attached(_, _, _)
Attached(n, rem, automating) ==
    IF n = Null THEN TRUE
    ELSE IF n \in rem THEN FALSE
    ELSE IF n = CURSOR /\ ~automating THEN FALSE
    ELSE \E p \in {Parent(n)} : Attached(p, rem, automating)

\* el.children: the element children present in the document.
LiveChildren(n, rem, automating) ==
    SelectSeq(Children(n), LAMBDA c : Attached(c, rem, automating))

\* The one element of a singleton.  Only(S) over {F(x) : x \in {e}} evaluates
\* e once, however often F reads x.
Only(S) == CHOOSE x \in S : TRUE

\* el.textContent: the text of the node and of all its descendants, in
\* document order.  TextOfAll is the text of a run of sibling elements.
RECURSIVE TextContent(_, _, _)
RECURSIVE TextOfAll(_, _, _)
TextOfAll(kids, rem, automating) ==
    IF kids = <<>> THEN <<>>
    ELSE Only({TextContent(k, rem, automating) \o TextOfAll(rest, rem, automating) :
               k \in {Head(kids)}, rest \in {Tail(kids)}})

TextContent(n, rem, automating) ==
    Only({OwnText(n) \o TextOfAll(kids, rem, automating) :
          kids \in {LiveChildren(n, rem, automating)}})

IsSpace(c) == c = " "

\* String.prototype.trim on a sequence of characters.
RECURSIVE TrimLeft(_)
TrimLeft(s) ==
    IF s = <<>> THEN <<>>
    ELSE IF IsSpace(Head(s)) THEN TrimLeft(Tail(s))
    ELSE s

RECURSIVE TrimRight(_)
TrimRight(s) ==
    IF s = <<>> THEN <<>>
    ELSE IF IsSpace(s[Len(s)]) THEN TrimRight(SubSeq(s, 1, Len(s) - 1))
    ELSE s

Trim(s) == Only({TrimRight(t) : t \in {TrimLeft(s)}})

\* The attributes the engine reads: type, draggable (inferPossibleInteractions)
\* and value (the options of a select).  The search field has no type
\* attribute (App.jsx 671-676); the options carry value attributes (800-803),
\* the first the empty one, and two of them the same, so that a search by
\* value has a first match to choose.
Attrs(n) ==
    CASE n = LABEL      -> ("draggable" :> "true")
      [] n = OPTION     -> ("value" :> "")
      [] n = OPTION_US  -> ("value" :> "us")
      [] n = OPTION_US2 -> ("value" :> "us")
      [] OTHER          -> <<>>

\* el.scrollHeight and el.clientHeight: the page and the list overflow.
ScrollHeight(n) == IF n \in {BODY, COUNTRY} THEN 2 ELSE 1

ClientHeight(n) == 1

\* The element as inferPossibleInteractions reads it.  el.draggable reflects
\* the attribute.
Element(n) ==
    [tagName |-> TagName(n), attrs |-> Attrs(n),
     draggable |-> ("draggable" \in DOMAIN Attrs(n) /\ Attrs(n)["draggable"] = "true"),
     scrollHeight |-> ScrollHeight(n), clientHeight |-> ClientHeight(n)]

----------------------------------------------------------------------------
(* inferPossibleInteractions (App.jsx 30-104).                             *)

\* String.prototype.toLowerCase on the tag names and type values the model
\* uses; the other strings of the model are lower-case already.
ToLowerCase(s) ==
    CASE s = "BODY"     -> "body"
      [] s = "DIV"      -> "div"
      [] s = "INPUT"    -> "input"
      [] s = "BUTTON"   -> "button"
      [] s = "LABEL"    -> "label"
      [] s = "SELECT"   -> "select"
      [] s = "OPTION"   -> "option"
      [] s = "P"        -> "p"
      [] s = "IMG"      -> "img"
      [] s = "A"        -> "a"
      [] s = "TEXTAREA" -> "textarea"
      [] s = "TEXT"     -> "text"
      [] s = "Email"    -> "email"
      [] s = "CHECKBOX" -> "checkbox"
      [] s = "Radio"    -> "radio"
      [] s = "SUBMIT"   -> "submit"
      [] s = "Hidden"   -> "hidden"
      [] OTHER          -> s

\* el.getAttribute(name) || "": the empty string for an absent attribute.
GetAttributeOrEmpty(e, name) ==
    IF name \in DOMAIN e.attrs THEN e.attrs[name] ELSE ""

\* typeAttr (App.jsx 33-37): lower-cased, "text" for an input without one.
TypeAttr(e) ==
    LET typeAttr == ToLowerCase(GetAttributeOrEmpty(e, "type"))
    IN  IF ToLowerCase(e.tagName) = "input" /\ typeAttr = "" THEN "text"
        ELSE typeAttr

\* The input types that take no text (App.jsx 73-82).
NonTextTypes ==
    {"checkbox", "radio", "button", "submit", "range", "file", "hidden", "image"}

\* A test that lets only textareas be typed into.
AcceptsTextAreaOnly(tag, typeAttr) == tag = "textarea"

\* tag === "textarea" || (tag === "input" && ![...].includes(typeAttr))
\* (App.jsx 69-86).
AcceptsText(tag, typeAttr) ==
    \/ tag = "textarea"
    \/ tag = "input" /\ typeAttr \notin NonTextTypes

\* A base set without the double click.
BaseInteractionsNoDblclick == <<"HOVER", "FOCUS", "CLICK", "RIGHT_CLICK">>

\* The interactions every element gets (App.jsx 40-48), in insertion order.
BaseInteractions == <<"HOVER", "FOCUS", "CLICK", "RIGHT_CLICK", "DBLCLICK">>

\* Array.from(possible): the set's members in insertion order.
InferPossibleInteractions(e) ==
    LET tag == ToLowerCase(e.tagName)
    IN  BaseInteractions
        \o (IF AcceptsText(tag, TypeAttr(e)) THEN <<"TYPE">> ELSE <<>>)
        \o (IF tag = "select" THEN <<"SELECT">> ELSE <<>>)
        \o (IF e.draggable \/ GetAttributeOrEmpty(e, "draggable") = "true"
            THEN <<"DRAG">> ELSE <<>>)
        \o (IF e.scrollHeight > e.clientHeight THEN <<"SCROLL">> ELSE <<>>)

----------------------------------------------------------------------------
(* buildDomSnapshot (App.jsx 243-368).  The walk threads the builder's     *)
(* state st = [ctr, items, stamp]: idCounter, parsedItems and the          *)
(* data-screen-id attributes it writes.                                    *)

\* A list of interactive tags without the select.
InteractiveTagsNoSelect == {"BUTTON", "INPUT", "A", "TEXTAREA"}

\* interactiveTags (App.jsx 296).
InteractiveTags == {"BUTTON", "INPUT", "A", "SELECT", "TEXTAREA"}

IsInteractive(n) == TagName(n) \in InteractiveTags

\* The id reserved for the node visited when the counter stands at ctr.
ReserveId(ctr) == ctr

\* idCounter++ (App.jsx 266).
NextIdStuck(ctr) == ctr

NextId(ctr) == ctr + 1

\* if (childItemId) childIds.push(childItemId) (App.jsx 271-273).
CollectChildPrepend(childIds, ret) ==
    IF ret # Null THEN <<ret>> \o childIds ELSE childIds

\* A loop that pushes what every child returned, null included.
CollectChildAlways(childIds, ret) == Append(childIds, ret)

CollectChild(childIds, ret) ==
    IF ret # Null THEN Append(childIds, ret) ELSE childIds

\* A builder that passes over the elements an earlier build has tagged.
EmitUntagged(st, n, item) ==
    IF st.stamp[n] # Null THEN [st |-> st, ret |-> Null]
    ELSE [st  |-> [st EXCEPT !.items = Append(@, item), !.stamp[n] = item.id],
          ret |-> item.id]

\* A builder that takes the id from the counter of produced items when it
\* produces one.
EmitTakesId(st, n, item) ==
    Only({[st  |-> [st EXCEPT !.items = Append(@, it), !.stamp[n] = it.id],
           ret |-> it.id] : it \in {[item EXCEPT !.id = Len(st.items) + 1]}})

\* A builder that puts each new item at the head of parsedItems.
EmitFirst(st, n, item) ==
    [st  |-> [st EXCEPT !.items = <<item>> \o @, !.stamp[n] = item.id],
     ret |-> item.id]

\* parsedItems.push(item); el.setAttribute("data-screen-id", id); return id.
Emit(st, n, item) ==
    Only({[st  |-> [st EXCEPT !.items = Append(@, it), !.stamp[n] = it.id],
           ret |-> it.id] : it \in {item}})

Skip(st) == [st |-> st, ret |-> Null]

\* Nodes whose box has a width but no height in every layout (their content
\* is positioned out of flow).
FlatNodes == {NAV}

\* rect.width and rect.height of el.getBoundingClientRect() (App.jsx 277),
\* reduced to zero and non-zero.
RectWidth(n, zero) == IF n \in zero THEN 0 ELSE 1

RectHeight(n, zero) == IF n \in zero \cup FlatNodes THEN 0 ELSE 1

\* A test that rejects a box as soon as one dimension is zero.
IsZeroSizeEither(width, height) == width = 0 \/ height = 0

\* rect.width === 0 && rect.height === 0 (App.jsx 278).
IsZeroSize(width, height) == width = 0 /\ height = 0

\* el.querySelectorAll("option"): the option elements below the node, in
\* document order.
RECURSIVE OptionsOfAll(_, _, _)
OptionsOfAll(kids, rem, automating) ==
    IF kids = <<>> THEN <<>>
    ELSE Only({(IF TagName(k) = "OPTION" THEN <<k>> ELSE <<>>)
               \o OptionsOfAll(below, rem, automating)
               \o OptionsOfAll(rest, rem, automating) :
               k \in {Head(kids)},
               below \in {LiveChildren(Head(kids), rem, automating)},
               rest \in {Tail(kids)}})

QuerySelectorAllOption(n, rem, automating) ==
    Only({OptionsOfAll(kids, rem, automating) :
          kids \in {LiveChildren(n, rem, automating)}})

\* opt.value of an option with a value attribute.
OptionValue(o) == Attrs(o)["value"]

\* selectOptions (App.jsx 301-308): value and trimmed text of each option of
\* a select, none for another element.
SelectOptions(n, env) ==
    IF ToLowerCase(TagName(n)) = "select"
    THEN Only({[i \in 1..Len(optionEls) |->
                   [value |-> OptionValue(optionEls[i]),
                    text  |-> Trim(TextContent(optionEls[i], env.removed,
                                               env.automating))]] :
               optionEls \in {QuerySelectorAllOption(n, env.removed,
                                                     env.automating)}})
    ELSE <<>>

\* inferPossibleInteractions(el) for each element of the interface, whose
\* attributes and overflow do not change.
PossibleInteractionsOf == [n \in Nodes |-> InferPossibleInteractions(Element(n))]

\* actionProps (App.jsx 309-316), without placeholder and href.
ActionProps(n, baseProps, env) ==
    baseProps @@ [type |-> "ACTION",
                  possibleInteractions |-> PossibleInteractionsOf[n],
                  selectOptions |-> SelectOptions(n, env)]

\* A classification that looks at the node's text before its children.
ClassifyItemTextFirst(n, children, r, baseProps, env) ==
    IF IsInteractive(n) THEN
        Emit(r.st, n, ActionProps(n, baseProps, env))
    ELSE IF Len(baseProps.textContent) > 0 THEN
        Emit(r.st, n, baseProps @@ [type |-> "INFO"])
    ELSE IF Len(r.childIds) > 0 THEN
        Emit(r.st, n, baseProps @@ [type |-> "CONTAINER", childIds |-> r.childIds])
    ELSE Skip(r.st)

\* The classification of parseElement (App.jsx 296-360): interactive nodes
\* are ACTION items, nodes with reported children are CONTAINER items, nodes
\* with text are INFO items, the others produce nothing.
ClassifyItem(n, children, r, baseProps, env) ==
    IF IsInteractive(n) THEN
        Emit(r.st, n, ActionProps(n, baseProps, env))
    ELSE IF Len(children) > 0 THEN
        IF Len(r.childIds) > 0 THEN
            Emit(r.st, n, [baseProps EXCEPT !.textContent = <<>>]
                          @@ [type |-> "CONTAINER", childIds |-> r.childIds])
        ELSE IF Len(baseProps.textContent) > 0 THEN
            Emit(r.st, n, baseProps @@ [type |-> "INFO"])
        ELSE Skip(r.st)
    ELSE IF Len(baseProps.textContent) > 0 THEN
        Emit(r.st, n, baseProps @@ [type |-> "INFO"])
    ELSE Skip(r.st)

\* Steps 4-6 of parseElement (App.jsx 276-360): the node's children are
\* parsed, r = [st, childIds] is what they left.
Classify(n, parentId, currentElementId, children, r, env) ==
    IF IsZeroSize(RectWidth(n, env.zeroSize), RectHeight(n, env.zeroSize))
    THEN Skip(r.st)
    ELSE Only({ClassifyItem(n, children, r, baseProps, env) :
               baseProps \in {[id |-> currentElementId, tagName |-> TagName(n),
                               textContent |->
                                   Trim(TextContent(n, env.removed, env.automating)),
                               parentId |-> parentId, node |-> n]}})

RECURSIVE ParseElement(_, _, _, _)
RECURSIVE ParseChildren(_, _, _, _, _)
RECURSIVE ParseSubtree(_, _, _, _, _)

\* Steps 2-6 of parseElement for a node that is not skipped: reserve the id,
\* parse the children, classify (App.jsx 263-360).
ParseSubtree(n, parentId, st, children, env) ==
    Only({Only({Classify(n, parentId, currentElementId, children, r, env) :
                r \in {ParseChildren(children, currentElementId, st1, <<>>,
                                     env)}}) :
          currentElementId \in {ReserveId(st.ctr)},
          st1 \in {[st EXCEPT !.ctr = NextId(@)]}})

\* for (const childEl of children) { ... } (App.jsx 269-274).
ParseChildren(kids, parentId, st, childIds, env) ==
    IF kids = <<>> THEN [st |-> st, childIds |-> childIds]
    ELSE Only({Only({Only({ParseChildren(rest, parentId, st1, ids, env) :
                           st1 \in {r.st},
                           ids \in {CollectChild(childIds, r.ret)}}) :
                     r \in {ParseElement(childEl, parentId, st, env)}}) :
               childEl \in {Head(kids)}, rest \in {Tail(kids)}})

\* A style test that finds no node hidden.
IsHiddenNever(n, hid) == FALSE

\* style.display === "none" || style.visibility === "hidden" (App.jsx 253-254).
IsHidden(n, hid) == n \in hid

\* parseElement(el, parentId) (App.jsx 247-361): [st, ret], ret the returned
\* id or Null.
ParseElement(n, parentId, st, env) ==
    IF IsFakeCursor(n) THEN Skip(st)
    ELSE IF InPanel(n) THEN Skip(st)
    ELSE IF IsHidden(n, env.hidden) THEN Skip(st)
    ELSE Only({ParseSubtree(n, parentId, st, children, env) :
               children \in {LiveChildren(n, env.removed, env.automating)}})

\* The builder's result on the interface env, starting from the stamps stamp0:
\* [items, stamp].
BuildDomSnapshot(env, stamp0) ==
    Only({[items |-> r.st.items, stamp |-> r.st.stamp] :
          r \in {ParseElement(BODY, Null,
                              [ctr |-> 1, items |-> <<>>, stamp |-> stamp0],
                              env)}})

Env(hid, rem, zero, automating) ==
    [hidden |-> hid, removed |-> rem, zeroSize |-> zero, automating |-> automating]

----------------------------------------------------------------------------
(* findActualElementById (App.jsx 422-424): document.querySelector returns *)
(* the first element in document order whose attribute matches.            *)

Matches(id, st, rem, automating) ==
    {n \in Nodes : st[n] = id /\ Attached(n, rem, automating)}

FirstOf(S) == CHOOSE n \in S : \A m \in S : n <= m

LastOf(S) == CHOOSE n \in S : \A m \in S : n >= m

FindActualElementById(id, st, rem, automating) ==
    LET S == Matches(id, st, rem, automating)
    IN  IF S = {} THEN Null ELSE FirstOf(S)

----------------------------------------------------------------------------
(* Layout.  A point is [x, y] in viewport coordinates.  Boxes are reduced  *)
(* to their centres; the page scrolls vertically.  All positions lie on a  *)
(* 6 x 8 grid whose diagonal is 10, so that every distance the planner     *)
(* computes (Math.sqrt) and every step (speed * cos, speed * sin) is an    *)
(* integer and the arithmetic below is exact.                              *)

Pt(x, y) == [x |-> x, y |-> y]

\* The viewport's vertical centre: scrollIntoView({block: "center"}) brings
\* the node's centre there.
ViewCenterY == 8

\* Centre of the node's box in page coordinates.
DocPos(n) ==
    CASE n = SEARCH  -> Pt(0, 8)
      [] n = BUY     -> Pt(6, 8)
      [] n = COUNTRY -> Pt(0, 16)
      [] n \in {OPTION, OPTION_US, OPTION_US2} -> Pt(0, 16)
      [] n = LABEL   -> Pt(0, 16)
      [] n = NAV     -> Pt(6, 8)
      [] OTHER       -> Pt(6, 8)

\* The node generates a box: it is in the document and neither it nor an
\* ancestor is display:none.
RECURSIVE Rendered(_, _, _, _)
Rendered(n, hid, rem, automating) ==
    IF n = Null THEN TRUE
    ELSE IF n \in hid \/ ~Attached(n, rem, automating) THEN FALSE
    ELSE \E p \in {Parent(n)} : Rendered(p, hid, rem, automating)

\* Centre of el.getBoundingClientRect(): all zeros for a node without a box.
RectCenter(n, sy, hid, rem, zero, automating) ==
    IF Rendered(n, hid, rem, automating) /\ n \notin zero
    THEN Pt(DocPos(n).x, DocPos(n).y - sy)
    ELSE Pt(0, 0)

\* el.scrollIntoView({behavior: "smooth", block: "center"}): the scroll
\* offset that centres the node; a node without a box does not scroll.
ScrollIntoView(n, sy, hid, rem, automating) ==
    IF Rendered(n, hid, rem, automating)
    THEN DocPos(n).y - ViewCenterY
    ELSE sy

----------------------------------------------------------------------------
(* animateCursorTo (App.jsx 389-417): one call of step().                  *)

\* Math.sqrt on the integers: the floor of the root (exact on the grid).
Sqrt(n) == CHOOSE r \in 0..n : r * r <= n /\ (r + 1) * (r + 1) > n

Dist(dx, dy) == Sqrt(dx * dx + dy * dy)

\* if (dist < speed): the step snaps to the target and resolves.
SnapsOnlyAtTarget(dist, speed) == dist = 0

SnapsWithinOrAt(dist, speed) == dist <= speed

Snaps(dist, speed) == dist < speed

\* speed * Math.cos(Math.atan2(dy, dx)); atan2(0, 0) is 0.
StepX(dx, dist, speed) ==
    IF dist = 0 THEN speed ELSE (speed * dx) \div dist

\* speed * Math.sin(Math.atan2(dy, dx)).
StepY(dy, dist, speed) ==
    IF dist = 0 THEN 0 ELSE (speed * dy) \div dist

\* The position step() writes from cur towards target, and whether it resolves.
StepOf(cur, target, speed) ==
    LET dx == target.x - cur.x
        dy == target.y - cur.y
    IN  Only({IF Snaps(dist, speed)
              THEN [pos |-> target, resolved |-> TRUE]
              ELSE [pos |-> Pt(cur.x + StepX(dx, dist, speed),
                               cur.y + StepY(dy, dist, speed)),
                    resolved |-> FALSE] :
              dist \in {Dist(dx, dy)}})

----------------------------------------------------------------------------
(* The Interaction Executor: handlePerformInteraction (App.jsx 486-617).   *)
(* A call is one invocation of the async function; its record holds the    *)
(* values the closure captured at the click, its locals and its position   *)
(* (pc).  from, steps, error, events and prior are history: they record    *)
(* what the call did and are read by no action.  val is el.value as the    *)
(* call's typing found and left it.                                        *)

\* Calls the model can hold at once.
MaxInFlight == 2

\* Animation frames of one animateCursorTo that the model follows before it
\* stops following a pointer that does not approach its target.
MaxFrames == 4

\* Longest text the model types.
MaxText == 2

Slots == 1..MaxInFlight

\* Place of the call in handlePerformInteraction:
\*   idle      no invocation in this slot
\*   wait      await delay(waitDuration)              (491)
\*   settle    await delay(600)                       (517)
\*   frame     requestAnimationFrame(step) pending    (525)
\*   perform   animateCursorTo resolved, switch next  (528)
\*   typing    await delay(60 + random) in typeInElement (479)
\*   hover     await delay(hoverDuration)             (578)
\*   dragFrame requestAnimationFrame(step) pending    (554, 569)
\*   dragEnd   drag animation resolved, mouseup next  (573)
\*   settling  the code after the try block next      (613-616)
\*   crashed   the promise was rejected
MicrotaskPcs == {"perform", "dragEnd", "settling"}

InteractionType ==
    {"CLICK", "TYPE", "DRAG", "HOVER", "FOCUS", "SCROLL", "SELECT",
     "RIGHT_CLICK", "DBLCLICK", "WAIT"}

\* Values of selectedInteraction the handler can be run with: the kinds, none
\* selected, and a kind the switch does not know.
RequestKinds == InteractionType \cup {"", "ZOOM"}

\* useState(10) (App.jsx 191).
DefaultCursorSpeed == 10

\* Values of cursorSpeed: Number(e.target.value) of a number input (857).
Speeds == {-5, 0, 5, DefaultCursorSpeed}

SampleText == <<"h", "i", "h", "i", "h">>

\* Values of selectOptionValue: none chosen (useState(""), App.jsx 211), the
\* value of an option, the value of no option.
SelectValues == {"", "us", "zz"}

Texts == {SubSeq(SampleText, 1, n) : n \in 0..MaxText}

\* Positions of the real pointer; the first is defaultPos (App.jsx 175).
MousePoints == {Pt(6, ViewCenterY), Pt(0, 0)}

DragPoints == {Pt(0, 0), Pt(6, 0)}

IdleCall ==
    [pc |-> "idle", kind |-> "", item |-> Null, el |-> Null, speed |-> 0,
     text |-> <<>>, i |-> 0, dragMode |-> "", dragTo |-> Pt(0, 0),
     value |-> "", prior |-> <<>>, val |-> <<>>,
     dropItem |-> Null, target |-> Pt(0, 0), cur |-> Pt(0, 0),
     from |-> Pt(0, 0), steps |-> 0, error |-> "none", events |-> <<>>]

InFlight == {s \in Slots : calls[s].pc # "idle"}

MicrotaskPending == \E s \in Slots : calls[s].pc \in MicrotaskPcs

\* A lookup that finds every id.
HasItemAny(items, id) == TRUE

\* domItems.find((d) => d.id === id): Null when there is none.
HasItem(items, id) == \E k \in 1..Len(items) : items[k].id = id

\* <button ... disabled={isAutomating}> (App.jsx 1100-1106).
PerformAlwaysEnabled(automating) == TRUE

PerformEnabled(automating) == ~automating

\* catch (err) { console.error(...) } (App.jsx 609-611): the call goes on
\* after the try block.
OnThrowEscapes(c, err) == [c EXCEPT !.pc = "crashed", !.error = err]

OnThrow(c, err) == [c EXCEPT !.pc = "settling", !.error = err]

\* The first call of animateCursorTo(x, y): it reads the speed and the pointer
\* position and schedules the first frame.
StartAnimation(c, pos, target, nextPc) ==
    [c EXCEPT !.pc = nextPc, !.target = target, !.cur = pos, !.from = pos,
              !.steps = 0]

Dispatch(c, evs) == [c EXCEPT !.events = @ \o evs]

CurrentEnv == Env(hidden, removed, zeroSize, isAutomating)

Find(id) == FindActualElementById(id, stamp, removed, isAutomating)

\* A centre taken from the box the element had before the page was scrolled.
CenterOfUnscrolled(n) == RectCenter(n, 0, hidden, removed, zeroSize, isAutomating)

CenterOf(n) == RectCenter(n, scrollY, hidden, removed, zeroSize, isAutomating)

\* No element was handed to inferPossibleInteractions outside a build.
NoProbe == [el |-> Element(BODY), possible |-> <<>>, inferred |-> FALSE]

----------------------------------------------------------------------------
(* Initial state: App is mounted and the mount effect has built the first  *)
(* snapshot (App.jsx 235-238).                                             *)

\* Nodes that may have an empty box, depending on the host's layout.
ZeroSizable == {LABEL, OPTION}

Init ==
    /\ hidden = {}
    /\ removed = {}
    /\ zeroSize = {OPTION}
    /\ LET b == BuildDomSnapshot(Env({}, {}, zeroSize, FALSE),
                                 [n \in Nodes |-> Null])
       IN  domItems = b.items /\ stamp = b.stamp
    /\ scrollY = 0
    /\ isAutomating = FALSE
    /\ cursorMode = "pointer"
    /\ cursorPos = Pt(0, 0)
    /\ realMousePos = Pt(6, ViewCenterY)
    /\ calls = [s \in Slots |-> IdleCall]
    /\ probe = NoProbe

----------------------------------------------------------------------------
(* The host: the user's pointer, changes of the interface, the refresh     *)
(* button.  None of them runs while a microtask is pending.                *)

\* A listener that records the real pointer while automating as well.
MouseMoveAlways(p) ==
    /\ ~MicrotaskPending
    /\ realMousePos' = p
    /\ UNCHANGED <<hidden, removed, zeroSize, probe, stamp, domItems, scrollY,
                   isAutomating, cursorMode, cursorPos, calls>>

\* handleMouseMove (App.jsx 220-226).
MouseMove(p) ==
    /\ ~MicrotaskPending
    /\ realMousePos' = IF ~isAutomating THEN p ELSE realMousePos
    /\ UNCHANGED <<hidden, removed, zeroSize, probe, stamp, domItems, scrollY,
                   isAutomating, cursorMode, cursorPos, calls>>

Hide(n) ==
    /\ ~MicrotaskPending
    /\ n \notin hidden
    /\ hidden' = hidden \cup {n}
    /\ UNCHANGED <<removed, zeroSize, probe, stamp, domItems, scrollY,
                   uiVars>>

Show(n) ==
    /\ ~MicrotaskPending
    /\ n \in hidden
    /\ hidden' = hidden \ {n}
    /\ UNCHANGED <<removed, zeroSize, probe, stamp, domItems, scrollY,
                   uiVars>>

Remove(n) ==
    /\ ~MicrotaskPending
    /\ n \notin removed
    /\ removed' = removed \cup {n}
    /\ UNCHANGED <<hidden, zeroSize, probe, stamp, domItems, scrollY, uiVars>>

\* A node added to the interface is a new element: it carries no stamp.
Add(n) ==
    /\ ~MicrotaskPending
    /\ n \in removed
    /\ removed' = removed \ {n}
    /\ stamp' = [stamp EXCEPT ![n] = Null]
    /\ UNCHANGED <<hidden, zeroSize, probe, domItems, scrollY, uiVars>>

\* <button onClick={buildDomSnapshot}> (App.jsx 848); not disabled while
\* automating.
RefreshDomSnapshot ==
    /\ ~MicrotaskPending
    /\ \E b \in {BuildDomSnapshot(CurrentEnv, stamp)} :
          domItems' = b.items /\ stamp' = b.stamp
    /\ UNCHANGED <<hidden, removed, zeroSize, probe, scrollY, uiVars>>

----------------------------------------------------------------------------
(* handlePerformInteraction, one action per task.                          *)

FreeSlot == CHOOSE s \in Slots : calls[s].pc = "idle" /\
                                 \A t \in Slots : t < s => calls[t].pc # "idle"

\* A start that leaves the fake cursor where the last automation left it.
StartAutomationKeepsPos ==
    /\ cursorPos' = cursorPos
    /\ isAutomating' = TRUE

\* A start that places the pointer and leaves the flag as it is.
StartAutomationNoFlag ==
    /\ cursorPos' = realMousePos
    /\ isAutomating' = isAutomating

\* startAutomation (App.jsx 373-379).
StartAutomation ==
    /\ cursorPos' = realMousePos
    /\ isAutomating' = TRUE

\* A stop that leaves the flag as it is.
StopAutomationKeepsFlag ==
    /\ isAutomating' = isAutomating
    /\ cursorMode' = "pointer"

\* stopAutomation (App.jsx 381-384).
StopAutomation ==
    /\ isAutomating' = FALSE
    /\ cursorMode' = "pointer"

\* The click on "Perform Action" with selectedInteraction = WAIT (488-491).
\* id is Number(selectedItemId), which the branch does not read; the call
\* keeps it as history.
ClickPerformWait(id) ==
    /\ ~MicrotaskPending
    /\ PerformEnabled(isAutomating)
    /\ \E s \in Slots : calls[s].pc = "idle"
    /\ StartAutomation
    /\ calls' = [calls EXCEPT ![FreeSlot] =
                    [IdleCall EXCEPT !.pc = "wait", !.kind = "WAIT",
                                     !.item = id]]
    /\ UNCHANGED <<hidden, removed, zeroSize, probe, stamp, domItems, scrollY,
                   cursorMode, realMousePos>>

\* The click with another kind: validation, startAutomation, resolution and
\* scrollIntoView, up to await delay(600) (498-517).  id is
\* Number(selectedItemId), Null for none selected.
ClickPerform(kind, id, speed, text, dragMode, dragTo, dropId, value) ==
    /\ ~MicrotaskPending
    /\ PerformEnabled(isAutomating)
    /\ \E s \in Slots : calls[s].pc = "idle"
    /\ kind # "WAIT"
    /\ id # Null /\ kind # ""
    /\ HasItem(domItems, id)
    /\ kind # "TYPE" => text = <<>>
    /\ kind # "SELECT" => value = ""
    /\ kind # "DRAG" => dragMode = "" /\ dragTo = Pt(0, 0) /\ dropId = Null
    /\ kind = "DRAG" => /\ dragMode \in {"coords", "element"}
                        /\ dragMode = "coords" => dropId = Null
                        /\ dragMode = "element" => dragTo = Pt(0, 0)
    /\ StartAutomation
    /\ cursorMode' = "pointer"
    /\ LET el == Find(id)
       IN  /\ scrollY' = IF el # Null
                         THEN ScrollIntoView(el, scrollY, hidden, removed,
                                             isAutomating)
                         ELSE scrollY
           /\ calls' = [calls EXCEPT ![FreeSlot] =
                  [IdleCall EXCEPT !.pc = "settle", !.kind = kind,
                      !.item = id, !.el = el, !.speed = speed, !.text = text,
                      !.dragMode = dragMode, !.dragTo = dragTo,
                      !.value = value,
                      !.dropItem = IF HasItem(domItems, dropId)
                                   THEN dropId ELSE Null]]
    /\ UNCHANGED <<hidden, removed, zeroSize, probe, stamp, domItems,
                   realMousePos>>

\* delay(waitDuration) fires: the finally block (492-495).
WaitTimer(s) ==
    /\ ~MicrotaskPending
    /\ calls[s].pc = "wait"
    /\ StopAutomation
    /\ calls' = [calls EXCEPT ![s] = IdleCall]
    /\ UNCHANGED <<hidden, removed, zeroSize, probe, stamp, domItems, scrollY,
                   cursorPos, realMousePos>>

\* delay(600) fires: the box is measured again and the animation starts
\* (519-525).  el.getBoundingClientRect() throws when el is null.
SettleTimer(s) ==
    /\ ~MicrotaskPending
    /\ calls[s].pc = "settle"
    /\ calls' = [calls EXCEPT ![s] =
          IF calls[s].el = Null
          THEN OnThrow(calls[s], "TypeError")
          ELSE StartAnimation(calls[s], cursorPos, CenterOf(calls[s].el),
                              "frame")]
    /\ UNCHANGED <<hidden, removed, zeroSize, probe, stamp, domItems, scrollY,
                   isAutomating, cursorMode, cursorPos, realMousePos>>

\* One animation frame: step() (395-414).
Frame(s) ==
    /\ ~MicrotaskPending
    /\ calls[s].pc \in {"frame", "dragFrame"}
    /\ \E c \in {calls[s]} : \E r \in {StepOf(c.cur, c.target, c.speed)} :
           /\ r.resolved \/ c.steps < MaxFrames
           /\ cursorPos' = r.pos
           /\ calls' = [calls EXCEPT ![s] =
                 IF r.resolved
                 THEN [c EXCEPT !.cur = r.pos,
                         !.pc = IF c.pc = "frame" THEN "perform" ELSE "dragEnd"]
                 ELSE [c EXCEPT !.cur = r.pos, !.steps = @ + 1]]
    /\ UNCHANGED <<hidden, removed, zeroSize, probe, stamp, domItems, scrollY,
                   isAutomating, cursorMode, realMousePos>>

\* What the node's value holds when typeInElement first reads it.
PriorValues == {<<>>, <<"x">>}

\* A keystroke without its input event.
KeyEventsNoInput(el, ch, val) ==
    <<<<"keydown", el, ch>>, <<"value", el, val \o <<ch>>>>, <<"keyup", el, ch>>>>

\* What one keystroke of typeInElement does to the node, in order (458-476):
\* keydown, el.value = (el.value || "") + char, input, keyup.  val is
\* el.value before it.
KeyEvents(el, ch, val) ==
    <<<<"keydown", el, ch>>, <<"value", el, val \o <<ch>>>>, <<"input", el>>,
      <<"keyup", el, ch>>>>

\* The i-th pass of the loop of typeInElement, up to its await (455-479).
Keystroke(c, i) ==
    Dispatch([c EXCEPT !.i = i, !.val = @ \o <<c.text[i]>>],
             KeyEvents(c.el, c.text[i], c.val))

\* options.findIndex((opt) => opt.value === selectOptionValue) (594-596),
\* counted from 0, -1 for none.  FindIndexFrom looks at options[i..].
RECURSIVE FindIndexFrom(_, _, _)
FindIndexFrom(options, value, i) ==
    IF i > Len(options) THEN -1
    ELSE IF OptionValue(options[i]) = value THEN i - 1
    ELSE FindIndexFrom(options, value, i + 1)

\* A search that falls back on the first option.
FindIndexOrFirst(options, value) ==
    IF FindIndexFrom(options, value, 1) >= 0
    THEN FindIndexFrom(options, value, 1)
    ELSE 0

FindIndex(options, value) == FindIndexFrom(options, value, 1)

\* A string is truthy unless it is empty.
Truthy(str) == str # ""

\* case InteractionType.SELECT (589-604): what the case does to the node.
SelectEvents(el, value) ==
    IF ToLowerCase(TagName(el)) = "select" /\ Truthy(value)
    THEN Only({IF matchIndex >= 0
               THEN <<<<"selectedIndex", el, matchIndex>>, <<"change", el>>>>
               ELSE <<>> :
               matchIndex \in {FindIndex(QuerySelectorAllOption(el, removed,
                                                                isAutomating),
                                         value)}})
    ELSE <<>>

\* A switch that looks the target up again by the item's id.
EffectTargetResolvedAgain(c) == Find(c.item)

\* el in the switch (App.jsx 528-604): the constant of line 513.
EffectTarget(c) == c.el

\* A switch whose HOVER case sets the hand as well.
ModeOfHoverHand(kind, mode) ==
    CASE kind \in {"CLICK", "RIGHT_CLICK", "DBLCLICK", "DRAG", "HOVER"} -> "hand"
      [] kind = "TYPE" -> "text"
      [] OTHER -> mode

\* The pointer mode a case of the switch sets (530-551).
ModeOf(kind, mode) ==
    CASE kind \in {"CLICK", "RIGHT_CLICK", "DBLCLICK", "DRAG"} -> "hand"
      [] kind = "TYPE" -> "text"
      [] OTHER -> mode

\* A drag that ends without its mouseup.
MouseUpSkipped(c) == [c EXCEPT !.pc = "settling"]

\* el.dispatchEvent(new MouseEvent("mouseup", ...)); break (App.jsx 573-574).
MouseUp(c) ==
    Dispatch([c EXCEPT !.pc = "settling"], <<<<"mouseup", c.el>>>>)

\* A switch whose default case throws as well.
CallsNodeOrUnknown(kind) ==
    kind \notin {"TYPE", "HOVER", "WAIT", ""}

\* Kinds whose case calls into the node before any await.
CallsNode(kind) ==
    kind \in {"CLICK", "RIGHT_CLICK", "DBLCLICK", "DRAG", "FOCUS", "SCROLL",
              "SELECT"}

\* The switch (528-608), up to its first await or to the end of the try
\* block.  throws: the first call into the node throws.  prior: the value
\* typeInElement finds in the node.
Perform(s, throws, prior) ==
    /\ calls[s].pc = "perform"
    /\ throws => CallsNode(calls[s].kind)
    /\ calls[s].kind # "TYPE" => prior = <<>>
    /\ LET c == calls[s]
           el == EffectTarget(c)
           done == [c EXCEPT !.pc = "settling"]
           dropEl == IF c.dropItem = Null THEN Null ELSE Find(c.dropItem)
       IN  /\ cursorMode' = IF throws /\ c.kind = "DRAG" THEN cursorMode
                            ELSE ModeOf(c.kind, cursorMode)
           /\ calls' = [calls EXCEPT ![s] =
                IF throws THEN OnThrow(c, "EffectError")
                ELSE CASE c.kind = "CLICK" ->
                            Dispatch(done, <<<<"click", el>>>>)
                       [] c.kind = "RIGHT_CLICK" ->
                            Dispatch(done, <<<<"contextmenu", el>>>>)
                       [] c.kind = "DBLCLICK" ->
                            Dispatch(done, <<<<"mousedown", el>>, <<"mouseup", el>>,
                                             <<"mousedown", el>>, <<"mouseup", el>>,
                                             <<"dblclick", el>>>>)
                       [] c.kind = "TYPE" ->
                            IF Len(c.text) = 0
                            THEN [done EXCEPT !.prior = prior, !.val = prior]
                            ELSE Keystroke([c EXCEPT !.pc = "typing",
                                                     !.prior = prior,
                                                     !.val = prior], 1)
                       [] c.kind = "DRAG" ->
                            LET down == Dispatch(c, <<<<"mousedown", el>>>>)
                            IN  IF c.dragMode = "coords"
                                THEN StartAnimation(down, cursorPos, c.dragTo,
                                                    "dragFrame")
                                ELSE IF dropEl # Null
                                THEN StartAnimation(down, cursorPos,
                                                    CenterOf(dropEl), "dragFrame")
                                ELSE MouseUp(down)
                       [] c.kind = "HOVER" -> [c EXCEPT !.pc = "hover"]
                       [] c.kind = "FOCUS" -> Dispatch(done, <<<<"focus", el>>>>)
                       [] c.kind = "SCROLL" -> Dispatch(done, <<<<"scrollTo", el>>>>)
                       [] c.kind = "SELECT" ->
                            Dispatch(done, SelectEvents(el, c.value))
                       [] OTHER -> done]
    /\ UNCHANGED <<hidden, removed, zeroSize, probe, stamp, domItems, scrollY,
                   isAutomating, cursorPos, realMousePos>>

\* The delay between two keystrokes fires: the next keystroke, or the end of
\* typeInElement (455-480).
TypeTimer(s) ==
    /\ ~MicrotaskPending
    /\ calls[s].pc = "typing"
    /\ LET c == calls[s]
       IN  calls' = [calls EXCEPT ![s] =
              IF c.i < Len(c.text)
              THEN Keystroke(c, c.i + 1)
              ELSE [c EXCEPT !.pc = "settling"]]
    /\ UNCHANGED <<hidden, removed, zeroSize, probe, stamp, domItems, scrollY,
                   isAutomating, cursorMode, cursorPos, realMousePos>>

\* delay(hoverDuration) fires (578-579).
HoverTimer(s) ==
    /\ ~MicrotaskPending
    /\ calls[s].pc = "hover"
    /\ calls' = [calls EXCEPT ![s].pc = "settling"]
    /\ UNCHANGED <<hidden, removed, zeroSize, probe, stamp, domItems, scrollY,
                   isAutomating, cursorMode, cursorPos, realMousePos>>

\* The drag animation resolved: mouseup on the source (573-574).
DragEnd(s) ==
    /\ calls[s].pc = "dragEnd"
    /\ calls' = [calls EXCEPT ![s] = MouseUp(calls[s])]
    /\ UNCHANGED <<hidden, removed, zeroSize, probe, stamp, domItems, scrollY,
                   isAutomating, cursorMode, cursorPos, realMousePos>>

\* After the try block: stopAutomation(); buildDomSnapshot() (613-616).
Settle(s) ==
    /\ calls[s].pc = "settling"
    /\ StopAutomation
    /\ \E b \in {BuildDomSnapshot(CurrentEnv, stamp)} :
          domItems' = b.items /\ stamp' = b.stamp
    /\ calls' = [calls EXCEPT ![s] = IdleCall]
    /\ UNCHANGED <<hidden, removed, zeroSize, probe, scrollY, cursorPos,
                   realMousePos>>

----------------------------------------------------------------------------
(* Specifications.                                                         *)

\* Interface changes the executor's specification follows.
Removable == {BUY}

\* Values of Number(selectedItemId) and Number(dragTargetElementId) a click
\* is tried with: none selected, ids of the snapshot, an id of no item.
RequestIds == {Null, 3, 4, 9}

\* Kinds whose case reads no parameter but the target.
PlainKinds == RequestKinds \ {"WAIT", "TYPE", "DRAG", "SELECT"}

\* Ids a SELECT is tried with: the select's and a button's in the first
\* snapshot.
SelectRequestIds == {4, 6}

Click ==
    \/ \E id \in RequestIds : ClickPerformWait(id)
    \/ \E id \in RequestIds, speed \in Speeds :
        \/ \E kind \in PlainKinds :
              ClickPerform(kind, id, speed, <<>>, "", Pt(0, 0), Null, "")
        \/ \E text \in Texts :
              ClickPerform("TYPE", id, speed, text, "", Pt(0, 0), Null, "")
        \/ \E dragTo \in DragPoints :
              ClickPerform("DRAG", id, speed, <<>>, "coords", dragTo, Null, "")
        \/ \E dropId \in RequestIds :
              ClickPerform("DRAG", id, speed, <<>>, "element", Pt(0, 0), dropId,
                           "")
    \/ \E id \in SelectRequestIds, value \in SelectValues :
          ClickPerform("SELECT", id, DefaultCursorSpeed, <<>>, "", Pt(0, 0), Null,
                       value)

Timer ==
    \E s \in Slots : WaitTimer(s) \/ SettleTimer(s) \/ TypeTimer(s) \/ HoverTimer(s)

AnimationFrame == \E s \in Slots : Frame(s)

Microtask ==
    \E s \in Slots :
        \/ \E throws \in BOOLEAN, prior \in PriorValues :
              Perform(s, throws, prior)
        \/ DragEnd(s)
        \/ Settle(s)

Host ==
    \/ \E p \in MousePoints : MouseMove(p)
    \/ \E n \in Removable : Remove(n) \/ Add(n)
    \/ RefreshDomSnapshot

Next == Click \/ Timer \/ AnimationFrame \/ Microtask \/ Host

Spec == Init /\ [][Next]_vars

\* The host keeps firing timers and animation frames, and runs microtasks.
LiveSpec ==
    /\ Spec
    /\ WF_vars(Timer)
    /\ WF_vars(AnimationFrame)
    /\ WF_vars(Microtask)

\* The Snapshot Builder alone, over the interfaces the changes below produce
\* from each layout; a wait puts the fake cursor into the document, where
\* the refresh button stays enabled.
SnapHideable == {NAV, SEARCH, COUNTRY}

SnapRemovable == {BUY, PARA}

InitSnap ==
    /\ hidden = {}
    /\ removed = {}
    /\ zeroSize \in SUBSET ZeroSizable
    /\ LET b == BuildDomSnapshot(Env({}, {}, zeroSize, FALSE),
                                 [n \in Nodes |-> Null])
       IN  domItems = b.items /\ stamp = b.stamp
    /\ scrollY = 0
    /\ isAutomating = FALSE
    /\ cursorMode = "pointer"
    /\ cursorPos = Pt(0, 0)
    /\ realMousePos = Pt(6, ViewCenterY)
    /\ calls = [s \in Slots |-> IdleCall]
    /\ probe = NoProbe

NextSnap ==
    \/ \E n \in SnapHideable : Hide(n) \/ Show(n)
    \/ \E n \in SnapRemovable : Remove(n) \/ Add(n)
    \/ RefreshDomSnapshot
    \/ ClickPerformWait(Null)
    \/ \E s \in Slots : WaitTimer(s)

SnapSpec == InitSnap /\ [][NextSnap]_vars

\* inferPossibleInteractions alone, over elements of every tag, type,
\* draggable setting and overflow below.
ProbeTags == {"BUTTON", "INPUT", "A", "SELECT", "TEXTAREA", "DIV", "IMG"}

ProbeTypes ==
    {"", "text", "TEXT", "Email", "password", "number", "color", "reset",
     "checkbox", "CHECKBOX", "radio", "Radio", "button", "submit", "SUBMIT",
     "range", "file", "hidden", "Hidden", "image"}

\* The type and draggable attributes an element can carry: each absent or
\* present.
ProbeAttrs ==
    LET types == {<<>>} \cup {("type" :> t) : t \in ProbeTypes}
        drags == {<<>>} \cup {("draggable" :> d) : d \in {"true", "false"}}
    IN  {t @@ d : t \in types, d \in drags}

\* el.draggable is true where the attribute says so, and by default for some
\* elements without it.
Elements ==
    {e \in [tagName : ProbeTags, attrs : ProbeAttrs, draggable : BOOLEAN,
            scrollHeight : {1, 2}, clientHeight : {1}] :
        /\ GetAttributeOrEmpty(e, "draggable") = "true" => e.draggable
        /\ GetAttributeOrEmpty(e, "draggable") = "false" => ~e.draggable}

InitInfer ==
    /\ hidden = {}
    /\ removed = {}
    /\ zeroSize = {OPTION}
    /\ LET b == BuildDomSnapshot(Env({}, {}, zeroSize, FALSE),
                                 [n \in Nodes |-> Null])
       IN  domItems = b.items /\ stamp = b.stamp
    /\ scrollY = 0
    /\ isAutomating = FALSE
    /\ cursorMode = "pointer"
    /\ cursorPos = Pt(0, 0)
    /\ realMousePos = Pt(6, ViewCenterY)
    /\ calls = [s \in Slots |-> IdleCall]
    /\ \E e \in Elements :
          probe = [el |-> e, possible |-> <<>>, inferred |-> FALSE]

\* One call inferPossibleInteractions(el).
Infer ==
    /\ ~probe.inferred
    /\ probe' = [probe EXCEPT !.possible = InferPossibleInteractions(probe.el),
                              !.inferred = TRUE]
    /\ UNCHANGED <<hidden, removed, zeroSize, stamp, domItems, scrollY, uiVars>>

NextInfer == Infer

InferSpec == InitInfer /\ [][NextInfer]_vars

----------------------------------------------------------------------------
(* Properties of the Snapshot Builder and of Element Resolution            *)
(* (checked under SnapSpec).                                               *)

ItemIndexes == 1..Len(domItems)

\* The snapshot is what buildDomSnapshot produces on the interface as it is.
UpToDate == domItems = BuildDomSnapshot(CurrentEnv, stamp).items

\* The same of the state a step leads to.
UpToDateNext ==
    domItems' = BuildDomSnapshot(Env(hidden', removed', zeroSize', isAutomating'),
                                 stamp').items

\* No build would change a stamp: the latest build ran on this interface.
JustBuilt == UpToDate /\ stamp = BuildDomSnapshot(CurrentEnv, stamp).stamp

\* The id of the item the node produced in the snapshot, Null for none.
ItemOfNode(n) ==
    IF \E k \in ItemIndexes : domItems[k].node = n
    THEN domItems[CHOOSE k \in ItemIndexes : domItems[k].node = n].id
    ELSE Null

\* The ids of the items produced by the direct children of n, in child order.
ChildItemIds(n) ==
    LET ids == [i \in 1..Len(Children(n)) |-> ItemOfNode(Children(n)[i])]
    IN  SelectSeq(ids, LAMBDA id : id # Null)

\* C1: the ids of the items of a snapshot are pairwise distinct positive
\* integers.
C1_UniqueIds ==
    \A j \in ItemIndexes :
        /\ domItems[j].id \in Nat \ {0}
        /\ \A k \in ItemIndexes : j # k => domItems[j].id # domItems[k].id

\* A snapshot of several items built on an interface with a hidden node.
C1_Witness ==
    /\ JustBuilt
    /\ Len(domItems) >= 4
    /\ hidden # {}

\* C3: once a build has run on the interface as it is, the id of every item
\* of the snapshot resolves to the node that produced the item.
C3_ResolvesToProducer ==
    JustBuilt => \A k \in ItemIndexes : Find(domItems[k].id) = domItems[k].node

\* C10: the childIds of a Container are the ids of the items its node's
\* direct children produced, in child order, and its textContent is empty.
C10_ContainerChildIds ==
    \A k \in ItemIndexes :
        domItems[k].type = "CONTAINER" =>
            /\ domItems[k].childIds = ChildItemIds(domItems[k].node)
            /\ domItems[k].textContent = <<>>

\* A build after an interface change with a Container of two child items,
\* one of whose node's children produced no item, and with text below it.
C10_Witness ==
    \E k \in ItemIndexes :
        /\ JustBuilt
        /\ (hidden \cup removed) # {}
        /\ domItems[k].type = "CONTAINER"
        /\ Len(domItems[k].childIds) >= 2
        /\ Len(domItems[k].childIds) < Len(Children(domItems[k].node))
        /\ Trim(TextContent(domItems[k].node, removed, isAutomating)) # <<>>

\* parseElement reaches the node: it is in the document, outside the panel,
\* not the fake cursor, and neither it nor an ancestor is hidden.
Visited(n) ==
    /\ Rendered(n, hidden, removed, isAutomating)
    /\ ~IsFakeCursor(n)
    /\ ~InPanel(n)

\* The type of the item the node produced in the snapshot, "NONE" for none.
ItemTypeOfNode(n) ==
    IF \E k \in ItemIndexes : domItems[k].node = n
    THEN domItems[CHOOSE k \in ItemIndexes : domItems[k].node = n].type
    ELSE "NONE"

\* Some child of the node produced an item.
SomeChildItem(n) ==
    \E i \in 1..Len(Children(n)) : ItemOfNode(Children(n)[i]) # Null

\* C11: in a snapshot built on the interface as it is, a visited
\* non-interactive node with a box produces a Container iff a child of it
\* produced an item, otherwise an Info iff its trimmed text is non-empty,
\* otherwise nothing.
C11_Classification ==
    UpToDate =>
        \A n \in Nodes :
            Visited(n) /\ ~IsInteractive(n) /\ n \notin zeroSize =>
                ItemTypeOfNode(n) =
                    IF SomeChildItem(n) THEN "CONTAINER"
                    ELSE IF Trim(TextContent(n, removed, isAutomating)) # <<>>
                    THEN "INFO"
                    ELSE "NONE"

\* A build in which a node with children, none of which produced an item,
\* is an Info, another with children produced nothing, and a Container has
\* text.
C11_Witness ==
    /\ UpToDate
    /\ \E n \in Nodes :
          /\ Visited(n) /\ ~IsInteractive(n) /\ n \notin zeroSize
          /\ LiveChildren(n, removed, isAutomating) # <<>>
          /\ ~SomeChildItem(n)
          /\ ItemTypeOfNode(n) = "INFO"
    /\ \E n \in Nodes :
          /\ Visited(n) /\ ~IsInteractive(n) /\ n \notin zeroSize
          /\ LiveChildren(n, removed, isAutomating) # <<>>
          /\ ItemTypeOfNode(n) = "NONE"
    /\ \E n \in Nodes :
          /\ ItemTypeOfNode(n) = "CONTAINER"
          /\ Trim(TextContent(n, removed, isAutomating)) # <<>>

\* The node would be an item if it were classified: it is interactive, or a
\* child of it produced an item, or it has text.
Classifiable(n) ==
    \/ IsInteractive(n)
    \/ SomeChildItem(n)
    \/ Trim(TextContent(n, removed, isAutomating)) # <<>>

\* C12: no item of a snapshot comes from a node whose box is 0 x 0, whatever
\* its children produced; in a snapshot built on the interface as it is, a
\* visited node with one zero dimension only produces the item its
\* classification gives.
C12_ZeroSizeRule ==
    /\ \A k \in ItemIndexes : domItems[k].node \notin zeroSize
    /\ UpToDate =>
          \A n \in Nodes :
              /\ Visited(n)
              /\ RectWidth(n, zeroSize) # RectHeight(n, zeroSize)
              /\ Classifiable(n)
              => ItemOfNode(n) # Null

\* A build after an interface change in which a 0 x 0 node has a child that
\* produced an item, and a node without height produced one.
C12_Witness ==
    /\ JustBuilt
    /\ (hidden \cup removed) # {}
    /\ \E n \in zeroSize : Visited(n) /\ SomeChildItem(n)
    /\ \E n \in Nodes :
          /\ RectWidth(n, zeroSize) # 0
          /\ RectHeight(n, zeroSize) = 0
          /\ ItemOfNode(n) # Null

\* x is a member of the sequence.
Has(seq, x) == \E i \in 1..Len(seq) : seq[i] = x

\* C13: an item is an Action exactly when its node's tag is BUTTON, INPUT, A,
\* SELECT or TEXTAREA, and exactly the Action items carry
\* possibleInteractions, whatever the attributes of the other nodes; in a
\* snapshot built on the interface as it is, every visited node with a box
\* and one of these tags produced an Action.
C13_ActionIffInteractiveTag ==
    /\ \A k \in ItemIndexes :
          /\ domItems[k].type = "ACTION" <=>
                TagName(domItems[k].node) \in
                    {"BUTTON", "INPUT", "A", "SELECT", "TEXTAREA"}
          /\ "possibleInteractions" \in DOMAIN domItems[k] <=>
                domItems[k].type = "ACTION"
    /\ UpToDate =>
          \A n \in Nodes :
              /\ Visited(n)
              /\ ~IsZeroSize(RectWidth(n, zeroSize), RectHeight(n, zeroSize))
              /\ TagName(n) \in {"BUTTON", "INPUT", "A", "SELECT", "TEXTAREA"}
              => ItemTypeOfNode(n) = "ACTION"

\* A build after an interface change with an Action, an item of a draggable
\* node that is no Action and an item of a scrollable node that is no Action.
C13_Witness ==
    /\ JustBuilt
    /\ (hidden \cup removed) # {}
    /\ \E k \in ItemIndexes : domItems[k].type = "ACTION"
    /\ \E k \in ItemIndexes :
          /\ domItems[k].type # "ACTION"
          /\ Has(InferPossibleInteractions(Element(domItems[k].node)), "DRAG")
    /\ \E k \in ItemIndexes :
          /\ domItems[k].type # "ACTION"
          /\ Has(InferPossibleInteractions(Element(domItems[k].node)), "SCROLL")

\* C15: the possibleInteractions of every Action item contain HOVER, FOCUS,
\* CLICK, RIGHT_CLICK and DBLCLICK, contain SELECT exactly when the node is a
\* select, and never contain WAIT; only the items of select nodes have
\* select options.
C15_ActionInteractions ==
    \A k \in ItemIndexes :
        /\ domItems[k].type = "ACTION" =>
              /\ \A kind \in {"HOVER", "FOCUS", "CLICK", "RIGHT_CLICK", "DBLCLICK"} :
                    Has(domItems[k].possibleInteractions, kind)
              /\ Has(domItems[k].possibleInteractions, "SELECT") <=>
                    TagName(domItems[k].node) = "SELECT"
              /\ ~Has(domItems[k].possibleInteractions, "WAIT")
        /\ "selectOptions" \in DOMAIN domItems[k] /\ domItems[k].selectOptions # <<>>
              => TagName(domItems[k].node) = "SELECT"

\* A build after an interface change with the Action of a select that has
\* options and the Action of another node, which has none.
C15_Witness ==
    /\ JustBuilt
    /\ (hidden \cup removed) # {}
    /\ \E k \in ItemIndexes :
          /\ domItems[k].type = "ACTION"
          /\ TagName(domItems[k].node) = "SELECT"
          /\ Len(domItems[k].selectOptions) >= 2
    /\ \E k \in ItemIndexes :
          /\ domItems[k].type = "ACTION"
          /\ TagName(domItems[k].node) # "SELECT"
          /\ domItems[k].selectOptions = <<>>

----------------------------------------------------------------------------
(* Properties of inferPossibleInteractions (checked under InferSpec).      *)

\* The element's type as the claim reads it: without regard to case, text
\* when the attribute is absent or empty.
DeclaredType(e) ==
    IF "type" \notin DOMAIN e.attrs THEN "text"
    ELSE IF e.attrs["type"] = "" THEN "text"
    ELSE CASE e.attrs["type"] \in {"CHECKBOX"} -> "checkbox"
           [] e.attrs["type"] \in {"Radio"} -> "radio"
           [] e.attrs["type"] \in {"SUBMIT"} -> "submit"
           [] e.attrs["type"] \in {"Hidden"} -> "hidden"
           [] OTHER -> e.attrs["type"]

\* C14: TYPE is among the inferred interactions exactly for a textarea and
\* for an input whose type, read without regard to case and as text when
\* absent or empty, is none of checkbox, radio, button, submit, range, file,
\* hidden, image.
C14_TypeIffTextEntry ==
    probe.inferred =>
        (Has(probe.possible, "TYPE") <=>
            \/ probe.el.tagName = "TEXTAREA"
            \/ /\ probe.el.tagName = "INPUT"
               /\ DeclaredType(probe.el) \notin
                      {"checkbox", "radio", "button", "submit", "range", "file",
                       "hidden", "image"})

\* The interactions of an input whose type is CHECKBOX in capitals were
\* inferred, without TYPE.
C14_Witness ==
    /\ probe.inferred
    /\ probe.el.tagName = "INPUT"
    /\ GetAttributeOrEmpty(probe.el, "type") = "CHECKBOX"
    /\ ~Has(probe.possible, "TYPE")

----------------------------------------------------------------------------
(* Properties of the Interaction Executor and of the Cursor Motion Planner *)
(* (checked under Spec, the liveness under LiveSpec).                      *)

AnimatingPcs == {"frame", "dragFrame"}

ResolvedPcs == {"perform", "dragEnd"}

\* The distance of the animation the call runs or has just run.
TotalDist(c) == Dist(c.target.x - c.from.x, c.target.y - c.from.y)

Ceil(a, b) == (a + b - 1) \div b

\* q lies in the box spanned by p and r.
Within(p, q, r) ==
    /\ (q.x - p.x) * (r.x - q.x) >= 0
    /\ (q.y - p.y) * (r.y - q.y) >= 0

\* C2: at most one interaction is in flight; while one is, isAutomating is
\* true at every suspension point and no click on "Perform Action" starts
\* another call, whatever is requested.
C2_AtMostOneInFlight ==
    /\ Cardinality(InFlight) <= 1
    /\ InFlight # {} => isAutomating /\ ~ENABLED Click

\* An interaction in the middle of its pointer animation.
C2_Witness ==
    \E s \in Slots : calls[s].pc = "frame" /\ calls[s].steps > 0

\* C4: a call that failed (the target did not resolve, or the effect threw)
\* is at the code after the try block, and its next step clears
\* isAutomating, resets the pointer mode and rebuilds the snapshot.
C4_FailureIsSettled ==
    [][\A s \in Slots :
          calls[s].error # "none" =>
              /\ calls[s].pc = "settling"
              /\ calls'[s].pc = "idle"
              /\ ~isAutomating'
              /\ cursorMode' = "pointer"
              /\ UpToDateNext]_vars

\* A call whose target id resolved to no live node.
C4_Witness ==
    \E s \in Slots : calls[s].error = "TypeError" /\ calls[s].el = Null

\* C5: every interaction that returns to Idle, wait included, leaves a
\* snapshot built at that point.
C5_IdleHasFreshSnapshot ==
    [][(\E s \in Slots : calls[s].pc # "idle" /\ calls'[s].pc = "idle")
          => UpToDateNext]_vars

\* C6: whenever an accepted interaction with a positive cursor speed, or a
\* wait, is in flight, the executor eventually is Idle again: no call is in
\* flight and isAutomating is false.
C6_ReturnsToIdle ==
    (\E s \in InFlight : calls[s].speed > 0 \/ calls[s].kind = "WAIT")
        ~> (InFlight = {} /\ ~isAutomating)

\* A drag with a positive speed that ran both its animations.
C6_Witness ==
    \E s \in Slots :
        /\ calls[s].pc = "settling"
        /\ calls[s].kind = "DRAG"
        /\ calls[s].speed > 0
        /\ calls[s].steps > 0

\* C7: with a positive speed, every position the animation writes lies
\* between its start and its target, the steps taken stay within the
\* distance, and when it resolves the pointer is at the target.
C7_EndsAtTarget ==
    \A s \in Slots :
        LET c == calls[s]
        IN  c.speed > 0 /\ c.pc \in AnimatingPcs \cup ResolvedPcs =>
              /\ cursorPos = c.cur
              /\ Within(c.from, c.cur, c.target)
              /\ c.steps * c.speed <= TotalDist(c)
              /\ c.pc \in ResolvedPcs => cursorPos = c.target

\* A diagonal animation that resolved after several steps.
C7_Witness ==
    \E s \in Slots :
        /\ calls[s].pc = "perform"
        /\ calls[s].speed > 0
        /\ calls[s].steps >= 2
        /\ calls[s].from.x # calls[s].target.x
        /\ calls[s].from.y # calls[s].target.y

C9_NonPositiveSpeedFailsFast ==
    \A s \in Slots :
        calls[s].speed <= 0 /\ calls[s].pc \in AnimatingPcs => calls[s].steps = 0

\* The arithmetic of the planner is exact on every animation of the model.
ExactGeometry ==
    \A s \in Slots :
        LET c == calls[s]
            dx == c.target.x - c.cur.x
            dy == c.target.y - c.cur.y
            d == Dist(dx, dy)
        IN  c.pc \in AnimatingPcs =>
              /\ d * d = dx * dx + dy * dy
              /\ d # 0 => (c.speed * dx) % d = 0 /\ (c.speed * dy) % d = 0

\* The call went through its case of the switch without an exception.
Completed(s, kind) ==
    /\ calls[s].kind = kind
    /\ calls[s].pc = "settling"
    /\ calls[s].error = "none"

\* The values of the options of the node, in document order.
OptionValuesOf(el) ==
    LET options == QuerySelectorAllOption(el, removed, isAutomating)
    IN  [i \in 1..Len(options) |-> OptionValue(options[i])]

\* C16: a SELECT whose value is the value of no option of the target node
\* assigns no selected index and dispatches no change event.
C16_NoMatchNoChange ==
    \A s \in Slots :
        Completed(s, "SELECT") /\ ~Has(OptionValuesOf(calls[s].el), calls[s].value)
            => calls[s].events = <<>>

\* A SELECT on the select with a value none of its options has went through.
C16_Witness ==
    \E s \in Slots :
        /\ Completed(s, "SELECT")
        /\ calls[s].el = COUNTRY
        /\ calls[s].value = "zz"
        /\ OptionValuesOf(COUNTRY) # <<>>

\* C17: a SELECT on a select whose value, the empty string included, is the
\* value of some option assigns the index of the first such option and
\* dispatches exactly one change event.
C17_MatchSelectsFirst ==
    \A s \in Slots :
        /\ Completed(s, "SELECT")
        /\ TagName(calls[s].el) = "SELECT"
        /\ Has(OptionValuesOf(calls[s].el), calls[s].value)
        => LET values == OptionValuesOf(calls[s].el)
               first == CHOOSE i \in 1..Len(values) :
                            /\ values[i] = calls[s].value
                            /\ \A j \in 1..(i - 1) : values[j] # calls[s].value
           IN  calls[s].events = <<<<"selectedIndex", calls[s].el, first - 1>>,
                                   <<"change", calls[s].el>>>>

\* What typing the first n characters of text into a node holding prior
\* does, keystroke by keystroke.
RECURSIVE Typed(_, _, _, _)
Typed(el, prior, text, n) ==
    IF n = 0 THEN <<>>
    ELSE Typed(el, prior, text, n - 1)
         \o <<<<"keydown", el, text[n]>>,
              <<"value", el, prior \o SubSeq(text, 1, n)>>,
              <<"input", el>>,
              <<"keyup", el, text[n]>>>>

\* The input events among evs.
InputEvents(evs) == SelectSeq(evs, LAMBDA e : e[1] = "input")

Accepts(kind, id, speed) ==
    ENABLED ClickPerform(kind, id, speed, <<>>,
                         IF kind = "DRAG" THEN "coords" ELSE "", Pt(0, 0), Null,
                         "")

\* C19: a click for a kind other than WAIT with no target selected, no kind
\* selected or a target id that the snapshot does not hold starts no call:
\* the step changes nothing, so isAutomating stays false, the pointer and
\* its mode stay, nothing is dispatched and no snapshot is built.
C19_InvalidRequestRejected ==
    \A kind \in RequestKinds \ {"WAIT"}, id \in RequestIds, speed \in Speeds :
        \/ id = Null
        \/ kind = ""
        \/ \A k \in ItemIndexes : domItems[k].id # id
        => ~Accepts(kind, id, speed)

\* Nothing is in flight, the snapshot holds one of the ids a click is tried
\* with and not another, and a click with the first would start a call.
C19_Witness ==
    /\ InFlight = {}
    /\ ~isAutomating
    /\ \E id \in RequestIds \ {Null} : \A k \in ItemIndexes : domItems[k].id # id
    /\ \E id \in RequestIds : Accepts("CLICK", id, DefaultCursorSpeed)
    /\ removed # {}

\* C20: a WAIT requested while a target is selected is rejected: no call of
\* kind WAIT that carries a target id is ever in flight, so isAutomating
\* never becomes true for one.
C20_WaitWithTargetRejected ==
    \A s \in Slots :
        calls[s].kind = "WAIT" /\ calls[s].item # Null => ~isAutomating

\* C21: a WAIT clicked with no target selected is accepted whenever the
\* button is enabled; it resolves no node, sets isAutomating and the start
\* position of the pointer, and while it waits nothing scrolls, the pointer
\* stays, nothing is dispatched; its timer clears isAutomating and ends it.
C21_WaitNeedsNoTarget ==
    [][/\ (~isAutomating /\ ~MicrotaskPending /\ InFlight = {})
             => ENABLED ClickPerformWait(Null)
       /\ \A s \in Slots :
            /\ (calls[s].pc = "idle" /\ calls'[s].kind = "WAIT") =>
                  /\ isAutomating'
                  /\ calls'[s].pc = "wait"
                  /\ calls'[s].el = Null
                  /\ calls'[s].events = <<>>
                  /\ cursorPos' = realMousePos
                  /\ scrollY' = scrollY
            /\ (calls[s].kind = "WAIT" /\ calls[s].item = Null) =>
                  /\ calls[s].pc = "wait"
                  /\ isAutomating
                  /\ cursorPos' = cursorPos
                  /\ scrollY' = scrollY
                  /\ \/ calls'[s] = calls[s]
                     \/ calls'[s] = IdleCall /\ ~isAutomating']_vars

\* A WAIT without target is waiting, on a page an earlier interaction has
\* scrolled and with the pointer at the place of the real one.
C21_Witness ==
    \E s \in Slots :
        /\ calls[s].kind = "WAIT"
        /\ calls[s].item = Null
        /\ calls[s].pc = "wait"
        /\ cursorPos = realMousePos
        /\ cursorPos # Pt(0, 0)
        /\ scrollY # 0

----------------------------------------------------------------------------
(* Further properties of the Snapshot Builder (checked under SnapSpec).    *)

\* The node or one of its ancestors is hidden.
RECURSIVE UnderHidden(_)
UnderHidden(n) ==
    IF n = Null THEN FALSE
    ELSE IF n \in hidden THEN TRUE
    ELSE \E p \in {Parent(n)} : UnderHidden(p)

\* The visited nodes that precede n in document order.
VisitedBefore(n) == {m \in Nodes : m < n /\ Visited(m)}

\* C22: no item of a snapshot comes from the fake cursor or from a node
\* inside the panel; in a snapshot built on the interface as it is, no item
\* comes from a hidden node or from a node below one, and the ids are
\* consumed by the visited nodes alone: the id of an item counts the visited
\* nodes up to its own, so no hidden node took one.
C22_SkippedNodes ==
    /\ \A k \in ItemIndexes :
          ~IsFakeCursor(domItems[k].node) /\ ~InPanel(domItems[k].node)
    /\ UpToDate =>
          /\ \A n \in Nodes : UnderHidden(n) => ItemOfNode(n) = Null
          /\ \A k \in ItemIndexes :
                domItems[k].id = Cardinality(VisitedBefore(domItems[k].node)) + 1

\* A build that ran while the fake cursor was in the document, on an
\* interface with a hidden node that has children and is followed by nodes
\* that produced items.
C22_Witness ==
    /\ JustBuilt
    /\ isAutomating
    /\ Attached(CURSOR, removed, isAutomating)
    /\ \E n \in hidden :
          /\ Children(n) # <<>>
          /\ Rendered(Parent(n), hidden, removed, isAutomating)
          /\ \E k \in ItemIndexes : domItems[k].node > n

\* The place in the sequence of the item with the id, 0 when there is none.
PosOf(items, id) ==
    IF \E k \in 1..Len(items) : items[k].id = id
    THEN CHOOSE k \in 1..Len(items) : items[k].id = id
    ELSE 0

\* The sequence without its ids: type, tag, text, and the places of the
\* parent and of the children of each item.
Shape(items) ==
    [k \in 1..Len(items) |->
        [type |-> items[k].type,
         tagName |-> items[k].tagName,
         textContent |-> items[k].textContent,
         parent |-> IF items[k].parentId = Null THEN 0
                    ELSE PosOf(items, items[k].parentId),
         children |-> IF items[k].type = "CONTAINER"
                      THEN [i \in 1..Len(items[k].childIds) |->
                               PosOf(items, items[k].childIds[i])]
                      ELSE <<>>]]

RECURSIVE IsAncestor(_, _)
IsAncestor(a, n) ==
    IF n = Null THEN FALSE
    ELSE \E p \in {Parent(n)} : p # Null /\ (p = a \/ IsAncestor(a, p))

\* C24 as stated: the ids are strictly increasing along the snapshot.
C24_IdsIncreasing ==
    \A j, k \in ItemIndexes : j < k => domItems[j].id < domItems[k].id

\* C24 amended: the ids are strictly increasing along the snapshot except
\* that an item comes after the items of its descendants, whose ids are
\* greater than its own: of two items the earlier one has the smaller id
\* unless it comes from a descendant of the later one's node, and no item
\* precedes an item of one of its descendants.
C24_PostOrder ==
    \A j, k \in ItemIndexes :
        j < k =>
            /\ ~IsAncestor(domItems[j].node, domItems[k].node)
            /\ IF IsAncestor(domItems[k].node, domItems[j].node)
               THEN domItems[k].id < domItems[j].id
               ELSE domItems[j].id < domItems[k].id

\* A snapshot built on a changed interface in which an item follows an item
\* of greater id and precedes another one of greater id.
C24_Witness ==
    /\ JustBuilt
    /\ hidden # {}
    /\ \E i, j, k \in ItemIndexes :
          /\ i < j /\ j < k
          /\ domItems[i].id > domItems[j].id
          /\ domItems[j].id < domItems[k].id
          /\ ~IsAncestor(domItems[k].node, domItems[j].node)

\* The ids of the items of the snapshot.
UsedIds == {domItems[k].id : k \in ItemIndexes}

\* The visited nodes, and the id the counter held when the node was reached.
VisitedNodes == {n \in Nodes : Visited(n)}

IdOfVisited(n) == Cardinality(VisitedBefore(n)) + 1

\* C25 as stated: a visited node that produces no item consumes no id, so
\* the n items of a snapshot use exactly the ids 1..n.
C25_IdsAreOneToN == UsedIds = 1..Len(domItems)

\* C25 amended: an id is taken from the counter when a node is visited,
\* before its children are parsed, whether or not the node produces an item:
\* a snapshot built on v visited nodes has its ids in 1..v, and the ids of
\* 1..v it does not use are those taken by the visited nodes that produced
\* no item.
C25_IdPerVisitedNode ==
    UpToDate =>
        /\ UsedIds \subseteq 1..Cardinality(VisitedNodes)
        /\ (1..Cardinality(VisitedNodes)) \ UsedIds
              = {IdOfVisited(n) : n \in {m \in VisitedNodes : ItemOfNode(m) = Null}}

\* A snapshot just built in which a visited node with visited children
\* produced no item and a later node produced one: it has fewer items than
\* its greatest id.
C25_Witness ==
    /\ JustBuilt
    /\ \E n \in VisitedNodes :
          /\ ItemOfNode(n) = Null
          /\ \E c \in VisitedNodes : Parent(c) = n
          /\ \E k \in ItemIndexes :
                domItems[k].node > n /\ domItems[k].id > Len(domItems)

----------------------------------------------------------------------------
(* Further properties of the Interaction Executor (checked under Spec).    *)

\* C26: isAutomating is true during the whole of an accepted interaction:
\* a call that is not idle, at whatever await it stands, has isAutomating
\* true, up to and including the point where the code after the try block
\* is next; and every step that scrolls, moves the fake cursor or dispatches
\* an effect leaves isAutomating true.
C26_AutomatingThroughout ==
    [][/\ \A s \in Slots :
            /\ calls[s].pc # "idle" => isAutomating
            /\ calls'[s].pc # "idle" => isAutomating'
            /\ (calls'[s].pc # "idle" /\ calls'[s].events # calls[s].events)
                  => isAutomating /\ isAutomating'
       /\ scrollY' # scrollY => isAutomating'
       /\ cursorPos' # cursorPos => isAutomating']_vars

\* A drag that scrolled its source into view, pressed down on it and is in
\* the middle of its second animation.
C26_Witness ==
    \E s \in Slots :
        /\ calls[s].pc = "dragFrame"
        /\ calls[s].steps > 0
        /\ calls[s].events # <<>>
        /\ scrollY # 0
        /\ cursorPos # calls[s].from
        /\ isAutomating

\* C27: when isAutomating is false the pointer mode is "pointer"; the mode
\* is "hand" only while isAutomating is true and a CLICK, RIGHT_CLICK,
\* DBLCLICK or DRAG is in flight, and "text" only while isAutomating is true
\* and a TYPE is in flight.
C27_PointerModes ==
    /\ cursorMode \in {"pointer", "hand", "text"}
    /\ ~isAutomating => cursorMode = "pointer"
    /\ cursorMode = "hand" =>
          /\ isAutomating
          /\ \E s \in InFlight :
                calls[s].kind \in {"CLICK", "RIGHT_CLICK", "DBLCLICK", "DRAG"}
    /\ cursorMode = "text" =>
          /\ isAutomating
          /\ \E s \in InFlight : calls[s].kind = "TYPE"

\* A TYPE between two keystrokes with the text pointer shown.
C27_Witness ==
    \E s \in Slots :
        /\ calls[s].kind = "TYPE"
        /\ calls[s].pc = "typing"
        /\ calls[s].i >= 1
        /\ cursorMode = "text"
        /\ isAutomating

\* The drop element of a drag by element resolves: the drop item was in the
\* snapshot of the click and its id finds an element now.
DropResolves(c) == c.dropItem # Null /\ Find(c.dropItem) # Null

\* C28: a DRAG on a resolved source whose calls into the node do not throw
\* dispatches nothing before the pointer has reached the source, then one
\* mousedown on the source in a step that does not move the pointer; while
\* the drag animation runs the mousedown is all that was dispatched; one
\* mouseup on the source follows in a step after the last frame, with the
\* pointer on the drag target, and nothing more is dispatched.  By element
\* with a drop item that is absent or does not resolve, the mousedown and
\* the mouseup are dispatched in one step that does not move the pointer.
C28_DragPressAndRelease ==
    [][\A s \in Slots :
          (/\ calls[s].kind = "DRAG" /\ calls[s].el # Null
           /\ calls'[s].pc # "idle" /\ calls'[s].error = "none") =>
             \E c \in {calls[s]}, c2 \in {calls'[s]} :
                \E down \in {<<"mousedown", c.el>>}, up \in {<<"mouseup", c.el>>} :
                   /\ c.pc \in {"settle", "frame"} => c2.events = <<>>
                   /\ c.pc = "perform" =>
                         /\ cursorPos' = cursorPos
                         /\ IF c.dragMode = "coords" \/ DropResolves(c)
                            THEN c2.pc = "dragFrame" /\ c2.events = <<down>>
                            ELSE c2.pc = "settling" /\ c2.events = <<down, up>>
                   /\ c.pc = "dragFrame" =>
                         /\ c2.pc \in {"dragFrame", "dragEnd"}
                         /\ c2.events = <<down>>
                   /\ c.pc = "dragEnd" =>
                         /\ cursorPos = c.target
                         /\ cursorPos' = cursorPos
                         /\ c2.pc = "settling"
                         /\ c2.events = <<down, up>>
                   /\ c.pc = "settling" => c2 = c]_vars

\* A drag by element that moved the pointer to its drop element and released
\* there.
C28_Witness ==
    \E s \in Slots :
        /\ Completed(s, "DRAG")
        /\ calls[s].dragMode = "element"
        /\ calls[s].steps > 0
        /\ cursorPos # calls[s].from
        /\ calls[s].events = <<<<"mousedown", calls[s].el>>,
                               <<"mouseup", calls[s].el>>>>

\* A drag by element whose drop item was in the snapshot and resolves to no
\* element: released where it was pressed.
C28_WitnessUnresolved ==
    \E s \in Slots :
        /\ Completed(s, "DRAG")
        /\ calls[s].dragMode = "element"
        /\ calls[s].dropItem # Null
        /\ Find(calls[s].dropItem) = Null
        /\ Len(calls[s].events) = 2

\* C29: a call with a kind the switch does not know and a resolved target
\* dispatches nothing to the node at any point; its switch step sets no
\* pointer mode, scrolls nothing and raises no error; the step after it
\* clears isAutomating, makes the call idle and leaves a snapshot built on
\* the interface as it then is.
C29_UnknownKindIsNoOp ==
    [][\A s \in Slots :
          (/\ calls[s].pc # "idle"
           /\ calls[s].kind \notin InteractionType
           /\ calls[s].el # Null) =>
             /\ calls[s].events = <<>>
             /\ calls[s].error = "none"
             /\ calls[s].pc = "perform" =>
                   /\ calls'[s] = [calls[s] EXCEPT !.pc = "settling"]
                   /\ cursorMode' = cursorMode
                   /\ cursorPos' = cursorPos
                   /\ scrollY' = scrollY
             /\ calls[s].pc = "settling" =>
                   /\ calls'[s] = IdleCall
                   /\ ~isAutomating'
                   /\ cursorMode' = "pointer"
                   /\ UpToDateNext]_vars

\* A call of an unknown kind that moved the pointer onto its target and went
\* through the switch.
C29_Witness ==
    \E s \in Slots :
        /\ calls[s].kind = "ZOOM"
        /\ calls[s].pc = "settling"
        /\ calls[s].el # Null
        /\ calls[s].steps > 0
        /\ cursorPos = calls[s].target

\* C30: a call accepted for an item of the snapshot whose id finds no
\* element starts with the fake cursor on the real pointer's position and
\* without scrolling; while it is in flight nothing is dispatched, no frame
\* of an animation runs, and no step moves the fake cursor or scrolls; the
\* timer of its first await records the TypeError and the next step ends it.
C30_UnresolvedTargetAborts ==
    [][\A s \in Slots :
          /\ (/\ calls[s].pc = "idle" /\ calls'[s].pc # "idle"
              /\ calls'[s].kind # "WAIT" /\ calls'[s].el = Null) =>
                /\ HasItem(domItems, calls'[s].item)
                /\ cursorPos' = realMousePos
                /\ scrollY' = scrollY
                /\ calls'[s].pc = "settle"
          /\ (/\ calls[s].pc # "idle"
              /\ calls[s].kind # "WAIT" /\ calls[s].el = Null) =>
                /\ calls[s].events = <<>>
                /\ calls[s].steps = 0
                /\ cursorPos = realMousePos
                /\ cursorPos' = cursorPos
                /\ scrollY' = scrollY
                /\ \/ calls[s].pc = "settle" /\ calls'[s] = calls[s]
                   \/ /\ calls[s].pc = "settle"
                      /\ calls'[s] = [calls[s] EXCEPT !.pc = "settling",
                                                      !.error = "TypeError"]
                   \/ /\ calls[s].pc = "settling"
                      /\ calls[s].error = "TypeError"
                      /\ calls'[s] = IdleCall]_vars

\* A call for an item of a removed node, after an earlier automation left
\* the page scrolled and the fake cursor elsewhere: it failed with the fake
\* cursor still on the position of the real pointer.
C30_Witness ==
    \E s \in Slots :
        /\ calls[s].pc = "settling"
        /\ calls[s].kind \in {"CLICK", "TYPE", "DRAG"}
        /\ calls[s].el = Null
        /\ calls[s].item # Null
        /\ calls[s].error = "TypeError"
        /\ calls[s].events = <<>>
        /\ cursorPos = realMousePos
        /\ scrollY # 0

\* C31: the timer of the settle delay measures the target's box as the page
\* is then scrolled and takes its centre as the goal of the animation, the
\* goal does not change afterwards, and the first effect of a call on its
\* target is dispatched by the switch step, after the animation has ended,
\* with the fake cursor on that goal, in a step that does not move it.
C31_EffectAfterHoming ==
    [][\A s \in Slots :
          \E c \in {calls[s]}, c2 \in {calls'[s]} :
             /\ (c.pc = "settle" /\ c2.pc = "frame") =>
                   c2.target = RectCenter(c.el, scrollY, hidden, removed,
                                          zeroSize, isAutomating)
             /\ (c.pc = "frame" /\ c2.pc # "idle") => c2.target = c.target
             /\ (c2.pc # "idle" /\ c.events = <<>> /\ c2.events # <<>>) =>
                   /\ c.pc = "perform"
                   /\ c.el # Null
                   /\ cursorPos = c.target
                   /\ cursorPos' = cursorPos]_vars

\* A click dispatched with the fake cursor on the centre measured after the
\* page was scrolled, which is not the centre the box had before.
C31_Witness ==
    \E s \in Slots :
        /\ Completed(s, "CLICK")
        /\ calls[s].events # <<>>
        /\ calls[s].steps > 0
        /\ scrollY # 0
        /\ cursorPos = calls[s].target
        /\ cursorPos # RectCenter(calls[s].el, 0, hidden, removed, zeroSize,
                                  isAutomating)

\* C32: the step that accepts a call puts the fake cursor on the recorded
\* position of the real pointer; while isAutomating is true no step changes
\* the recorded position, so it is the last one recorded while idle; and the
\* fake cursor moves only in an accepting step or in a frame of an
\* animation, to the position the frame computed.
C32_StartsAtRealPointer ==
    [][/\ (\E s \in Slots : calls[s].pc = "idle" /\ calls'[s].pc # "idle") =>
             /\ ~isAutomating
             /\ cursorPos' = realMousePos
             /\ realMousePos' = realMousePos
       /\ isAutomating => realMousePos' = realMousePos
       /\ cursorPos' # cursorPos =>
             \/ \E s \in Slots : calls[s].pc = "idle" /\ calls'[s].pc # "idle"
             \/ \E s \in Slots :
                   /\ calls[s].pc \in {"frame", "dragFrame"}
                   /\ cursorPos' = calls'[s].cur]_vars

\* An animation in progress that started from a position of the real pointer
\* recorded after the mount, with the fake cursor moved away from it.
C32_Witness ==
    \E s \in Slots :
        /\ calls[s].pc = "frame"
        /\ calls[s].steps > 0
        /\ calls[s].from = realMousePos
        /\ realMousePos = Pt(0, 0)
        /\ cursorPos # realMousePos
        /\ isAutomating

----------------------------------------------------------------------------
(* Properties of parentId and childIds (checked under SnapSpec).           *)

\* C33: the parentId of every item of the snapshot is null or the id of an
\* item of the same snapshot.
C33_ParentIdResolves ==
    \A k \in ItemIndexes :
        domItems[k].parentId = Null \/ HasItem(domItems, domItems[k].parentId)

\* C34: in every snapshot each id of a Container's childIds is the id of an
\* item whose parentId is the Container's id, and each item whose parentId
\* is the Container's id is in its childIds exactly once.
C34_ParentAndChildrenAgree ==
    \A k \in ItemIndexes :
        domItems[k].type = "CONTAINER" =>
            /\ \A i \in 1..Len(domItems[k].childIds) :
                  \E j \in ItemIndexes :
                      /\ domItems[j].id = domItems[k].childIds[i]
                      /\ domItems[j].parentId = domItems[k].id
            /\ \A j \in ItemIndexes :
                  domItems[j].parentId = domItems[k].id =>
                      Cardinality({i \in 1..Len(domItems[k].childIds) :
                                      domItems[k].childIds[i] = domItems[j].id}) = 1

\* A snapshot just built with a Container of several child items and a
\* Container below which a node that produced no item has a child that
\* produced one.
C34_Witness ==
    /\ JustBuilt
    /\ \E k \in ItemIndexes :
          /\ domItems[k].type = "CONTAINER"
          /\ Len(domItems[k].childIds) >= 2
    /\ \E k, j \in ItemIndexes :
          /\ domItems[k].type = "CONTAINER"
          /\ domItems[j].parentId # Null
          /\ ~HasItem(domItems, domItems[j].parentId)
          /\ IsAncestor(domItems[k].node, domItems[j].node)

\* The content of the panel, which changes with the engine's state: the
\* panel shows the last snapshot (App.jsx 847) and renders its sections by
\* the selected interaction (914-1098).  In the fixture it is one node,
\* rendered or not.
PanelContent == {PERFORM}

\* The snapshot a build gives on the interface as it is, with the fake
\* cursor rendered or not and with the panel content pc rendered.
SnapshotWith(automating, pc) ==
    BuildDomSnapshot(Env(hidden, (removed \ PanelContent) \cup (PanelContent \ pc),
                         zeroSize, automating), stamp).items

\* C35: on the same interface content a build gives the same sequence, ids
\* included, whether or not the fake cursor is rendered and whatever the
\* panel contains.
C35_IndependentOfEngine ==
    \A automating \in BOOLEAN, pc \in SUBSET PanelContent :
        SnapshotWith(automating, pc) = SnapshotWith(FALSE, {})

\* C36: in every snapshot the items produced below a node come before the
\* item of the node, and an item with a parentId has an id greater than it.
C36_DescendantsFirst ==
    /\ \A j, k \in ItemIndexes :
          IsAncestor(domItems[k].node, domItems[j].node) => j < k
    /\ \A k \in ItemIndexes :
          domItems[k].parentId # Null => domItems[k].id > domItems[k].parentId

\* A snapshot built on a changed interface with an item that comes after an
\* item produced two levels below it, whose parentId is another one's id.
C36_Witness ==
    /\ JustBuilt
    /\ (hidden \cup removed) # {}
    /\ \E j, k \in ItemIndexes :
          /\ IsAncestor(domItems[k].node, domItems[j].node)
          /\ domItems[j].parentId # Null
          /\ domItems[j].parentId # domItems[k].id
          /\ j < k

----------------------------------------------------------------------------
(* The target of an interaction and the refresh button (checked under      *)
(* Spec).                                                                  *)

\* The nodes the events of a call were dispatched to.
EventNodes(c) == {c.events[i][2] : i \in 1..Len(c.events)}

\* C37: the element of a call is the one its item's id finds when the call
\* is accepted; no step taken while the call is in flight, a refresh of the
\* snapshot included, changes it; and every effect of the call goes to it.
C37_TargetFixedAtStart ==
    [][\A s \in Slots :
          /\ (calls[s].pc = "idle" /\ calls'[s].pc = "settle") =>
                calls'[s].el = FindActualElementById(calls'[s].item, stamp,
                                                     removed, isAutomating)
          /\ (calls[s].pc # "idle" /\ calls'[s].pc # "idle") =>
                /\ calls'[s].el = calls[s].el
                /\ calls'[s].item = calls[s].item
                /\ EventNodes(calls'[s]) \subseteq {calls[s].el}]_vars

\* An effect dispatched to the element found at the start, after a refresh
\* in flight left the item's id finding another element or none.
C37_Witness ==
    \E s \in Slots :
        /\ calls[s].pc = "settling"
        /\ calls[s].error = "none"
        /\ calls[s].events # <<>>
        /\ calls[s].el # Null
        /\ Find(calls[s].item) # calls[s].el
        /\ stamp[calls[s].el] \notin {Null, calls[s].item}

====
